---- MODULE Spec2Model ----
(***************************************************************************)
(* Model of src/script.js (ARTIC-ASCII): the time-boxed localStorage cache *)
(* in front of the two-request artwork fetch (getPageTotal, getRandomIDs,  *)
(* fetchArtworksAndCache).                                                 *)
(*                                                                         *)
(* Each invocation of fetchArtworksAndCache is a slot c \in Calls with a   *)
(* program counter; one action is one run-to-completion stretch of         *)
(* JavaScript between two awaits, so overlapping invocations interleave    *)
(* exactly at the awaits.  The network, the clock, Math.random and the     *)
(* previous content of localStorage are the environment and are chosen     *)
(* nondeterministically.  The page is assumed to contain the elements the  *)
(* script looks up by id.                                                  *)
(*                                                                         *)
(* Spec follows fetchArtworksAndCache under callers that are left open;    *)
(* SpecIDs follows getRandomIDs alone; SpecUI follows the page around it   *)
(* (renderArtworkData, getImageUrl, the Next Artwork handler, the image    *)
(* request) with currentIndex and the title element; SpecLive follows one  *)
(* chain of renders on a batch that stays cached, under fairness.          *)
(***************************************************************************)
EXTENDS Integers, Sequences, FiniteSets, TLC

(***************************************************************************)
(* Program constants                                                       *)
(***************************************************************************)
\* script.js:4   const CACHE_DURATION = 60 * 60 * 1000
CACHE_DURATION == 60 * 60 * 1000

\* script.js:48  for (let i = 0; i < 10; i++)
NumIDs == 10

(***************************************************************************)
(* Bounds of the model                                                     *)
(***************************************************************************)
\* invocations of fetchArtworksAndCache started in one behaviour
MaxCalls == 3
\* clock advances in one behaviour
MaxTicks == 2
\* Math.random() yields k / RandDenom for k in 0 .. RandDenom-1
RandDenom == 2

\* clicks on Next Artwork in one behaviour
MaxClicks == 1
\* automatic re-renders in one chain of renders
MaxRerenders == 2

\* invocation slots: two invocations may be in flight at once
Calls == {1, 2}

\* what the clock reads when the page is loaded (ms since the epoch)
LoadTime == 2 * CACHE_DURATION
\* the clock advances by one of these amounts
TickSteps == {1, CACHE_DURATION - 1}
\* number of advances that lead from LoadTime to the reading n
TickCount(n) == ((n - LoadTime) \div (CACHE_DURATION - 1)) + ((n - LoadTime) % (CACHE_DURATION - 1))

(***************************************************************************)
(* JavaScript values                                                       *)
(***************************************************************************)
JNull == [t |-> "null"]
JUndef == [t |-> "undefined"]
JNaN == [t |-> "NaN"]
JNum(n) == [t |-> "number", v |-> n]
JArr(s) == [t |-> "array", v |-> s]
\* an object is its own-property map
JObj(m) == [t |-> "object", m |-> m]
\* a rejected promise / thrown exception
Thrown == [t |-> "thrown"]
\* no value yet
None == [t |-> "none"]

\* property access o.k on an object: undefined when o has no own property k
Get(o, k) == IF k \in DOMAIN o.m THEN o.m[k] ELSE JUndef

\* a - b for a number a: NaN unless b is a number (undefined -> NaN)
Minus(a, b) == IF b.t = "number" THEN JNum(a - b.v) ELSE JNaN

\* x < n for a number n: every comparison with NaN is false
Less(x, n) == x.t = "number" /\ x.v < n

\* one artwork record of the API
Rec(i) == [id |-> i, title |-> <<"title", i>>, image_id |-> <<"img", i>>]

(***************************************************************************)
(* JSON text.  A text is "garbage" (not JSON), the literal null, or an     *)
(* object literal: the sequence of its members <<key, value>> in order.    *)
(***************************************************************************)
TxtGarbage == [k |-> "garbage"]
TxtNull == [k |-> "null"]
TxtObj(members) == [k |-> "object", members |-> members]

\* JSON.stringify of an object with the own properties keys (in order):
\* a property whose value is undefined is left out
RECURSIVE Members(_, _)
Members(o, keys) ==
    IF keys = <<>> THEN <<>>
    ELSE LET k == Head(keys)
             rest == Members(o, Tail(keys))
         IN  IF Get(o, k) = JUndef THEN rest ELSE <<(<<k, Get(o, k)>>)>> \o rest

JSONstringify(o, keys) == TxtObj(Members(o, keys))

\* JSON.parse: Thrown on text that is not JSON
JSONparse(txt) ==
    CASE txt.k = "garbage" -> Thrown
      [] txt.k = "null" -> JNull
      [] txt.k = "object" ->
           JObj([key \in {txt.members[i][1] : i \in DOMAIN txt.members} |->
                   LET i == CHOOSE j \in DOMAIN txt.members : txt.members[j][1] = key
                   IN  txt.members[i][2]])

(***************************************************************************)
(* localStorage slot CACHE_KEY                                             *)
(***************************************************************************)
\* getItem returns null: the key was never set
NoItem == [s |-> "absent"]
\* the empty string
EmptyItem == [s |-> "empty"]
\* a non-empty string
Item(txt) == [s |-> "text", txt |-> txt]

\* CachePayload with the timestamp in seconds
CachePayloadSeconds(ts, data) == JObj([timestamp |-> JNum(ts \div 1000), data |-> data])

\* the payload script.js:102-106 builds and stores
CachePayload(ts, data) == JObj([timestamp |-> JNum(ts), data |-> data])
CacheKeys == <<"timestamp", "data">>

VARIABLES
    slot,        \* localStorage[CACHE_KEY]
    now,         \* the clock, new Date().getTime()
    started,     \* invocations started so far
    listHTML,    \* innerHTML of the element artworks-list
    lastFetch,   \* artworks and clock of the latest cache write (observation only)
    pc,          \* per invocation: where it is suspended
    pageTotal,   \* per invocation: getRandomIDs' local response
    idArr,       \* per invocation: getRandomIDs' local idArr
    result,      \* per invocation: value the promise settled with
    hist,        \* per invocation: what it has done so far (observation only)
    currentIndex,   \* script.js:5  let currentIndex = 0
    imageUrl,       \* script.js:123  let imageUrl, set before renderImage is called
    title,          \* innerHTML of the element artwork-title
    task,           \* per invocation: the function that awaits it
    artworkData,    \* per invocation: renderArtworkData's const artworkData
    artwork,        \* per invocation: renderArtworkData's const artwork
    tempImageUrl,   \* per invocation: renderArtworkData's tempImageUrl
    okImages,       \* image ids the image server answers with an ok status
    clicks,         \* clicks on Next Artwork so far
    rerenders,      \* per invocation: re-renders since the chain's first render (observation only)
    lastError       \* the error that ends a chain of the page (observation only)

\* the state of fetchArtworksAndCache and the state of the page around it
uiVars ==
    <<currentIndex, imageUrl, title, task, artworkData, artwork, tempImageUrl, okImages,
      clicks, rerenders, lastError>>

vars ==
    <<slot, now, started, listHTML, lastFetch, pc, pageTotal, idArr, result, hist,
      currentIndex, imageUrl, title, task, artworkData, artwork, tempImageUrl, okImages,
      clicks, rerenders, lastError>>

(***************************************************************************)
(* Environment inputs                                                      *)
(***************************************************************************)
\* what a fetch() settles with: the promise rejects, or a response whose
\* ok flag is false or true
FetchOutcomes == {"neterr", "notok", "ok"}

\* pagination.total values the metadata endpoint reports
Totals == {0, 1}

\* what countResponse.json() settles with: a rejection (body is not JSON),
\* an object without pagination, or {pagination: {total: n}}
MetaBodies ==
    {Thrown, JObj(<<>>)} \cup {JObj([pagination |-> JObj([total |-> JNum(n)])]) : n \in Totals}

\* record sequences the batch endpoint returns (possibly fewer than asked)
BatchData == {<<>>, <<Rec(1)>>, <<Rec(1), Rec(2)>>}

\* what response.json() settles with: a rejection, null, an object without
\* data, or {data: [...]}
BatchBodies ==
    {Thrown, JNull, JObj(<<>>)} \cup {JObj([data |-> JArr(d)]) : d \in BatchData}

\* what localStorage may hold when the page is loaded: nothing, "", text
\* that is not JSON, "null", "{}", or a payload written by an earlier visit
OldData == JArr(<<Rec(0)>>)
InitSlots ==
    {NoItem, EmptyItem, Item(TxtGarbage), Item(TxtNull), Item(TxtObj(<<>>))}
    \cup {Item(JSONstringify(CachePayload(ts, OldData), CacheKeys)) :
            ts \in {LoadTime - CACHE_DURATION, LoadTime - CACHE_DURATION + 1, LoadTime}}

(***************************************************************************)
(* Pure parts of the code                                                  *)
(***************************************************************************)
\* Fresh with the duration taken in seconds (60 * 60)
FreshSeconds(t, ts) == Less(Minus(t, ts), 60 * 60)

\* Fresh with <= for <
FreshInclusive(t, ts) == Less(Minus(t, ts), CACHE_DURATION + 1)

\* script.js:68  now - cache.timestamp < CACHE_DURATION
Fresh(t, ts) == Less(Minus(t, ts), CACHE_DURATION)

\* CacheLookup without the try/catch around JSON.parse and cache.timestamp
CacheLookupNoCatch(cachedData, t) ==
    IF cachedData.s = "text"
    THEN LET cache == JSONparse(cachedData.txt)
         IN  IF cache = Thrown THEN [hit |-> TRUE, data |-> Thrown]
             ELSE IF cache.t # "object" THEN [hit |-> TRUE, data |-> Thrown]
             ELSE IF Fresh(t, Get(cache, "timestamp"))
                  THEN [hit |-> TRUE, data |-> Get(cache, "data")]
                  ELSE [hit |-> FALSE]
    ELSE [hit |-> FALSE]

\* script.js:60-83  the cache read: [hit |-> TRUE, data |-> cache.data] when
\* the function returns from line 71, [hit |-> FALSE] when it falls through
CacheLookup(cachedData, t) ==
    IF cachedData.s = "text"
    THEN LET cache == JSONparse(cachedData.txt)
         IN  IF cache = Thrown THEN [hit |-> FALSE]
             \* cache.timestamp on null throws a TypeError, caught at line 76
             ELSE IF cache.t # "object" THEN [hit |-> FALSE]
             ELSE IF Fresh(t, Get(cache, "timestamp"))
                  THEN [hit |-> TRUE, data |-> Get(cache, "data")]
                  ELSE [hit |-> FALSE]
    ELSE [hit |-> FALSE]

\* script.js:26-38  getPageTotal after the body was read: countData is what
\* json() settled with
PageTotalOf(countData) ==
    IF countData = Thrown THEN JNull
    ELSE IF Get(countData, "pagination") = JUndef THEN JNull
    ELSE LET totalArtworks == Get(Get(countData, "pagination"), "total")
         IN  IF totalArtworks = JNum(0) THEN JNull ELSE totalArtworks

\* why getPageTotal returned what it did, for the record of the invocation
MetaKind(countData) ==
    IF countData = Thrown \/ Get(countData, "pagination") = JUndef THEN "body"
    ELSE IF Get(Get(countData, "pagination"), "total") = JNum(0) THEN "zero"
    ELSE "total"

\* RandomID with Math.round for Math.floor
RandomIDRound(k, response) ==
    LET n == IF response.t = "number" THEN response.v ELSE 0
    IN  (((2 * k * n) + RandDenom) \div (2 * RandDenom)) + 1

\* script.js:49  Math.floor(Math.random() * response) + 1 with
\* Math.random() = k / RandDenom; null converts to the number 0
RandomID(k, response) ==
    LET n == IF response.t = "number" THEN response.v ELSE 0
    IN  ((k * n) \div RandDenom) + 1

\* script.js:48  the indices i for which the loop body runs: 0 <= i < 10
LoopRange == 0 .. (NumIDs - 1)

\* script.js:46-52  the arrays getRandomIDs can return for a given response:
\* one push per iteration, each with its own Math.random()
RandomIDArrays(response) ==
    LET ids == {RandomID(k, response) : k \in 0 .. (RandDenom - 1)}
    IN  [1 .. Cardinality(LoopRange) -> ids]

\* script.js:87  idArr.join(','), as the sequence of its tokens
RECURSIVE Join(_)
Join(ids) ==
    IF ids = <<>> THEN <<>>
    ELSE IF Len(ids) = 1 THEN <<[num |-> ids[1]]>>
    ELSE <<[num |-> ids[1]], [sep |-> ","]>> \o Join(Tail(ids))

(***************************************************************************)
(* Record of one invocation (observation only, never read by the code):    *)
(* nMeta/nBatch: requests sent;                                            *)
(* metaStatus/batchStatus: what the fetch settled with; metaBody: what the *)
(* metadata body held ("body", "zero", "total"); idString: the ids of the   *)
(* batch request; body: the batch body that was stored; wrote: whether it  *)
(* stored a payload.                                                       *)
(***************************************************************************)
NoHist ==
    [nMeta |-> 0, nBatch |-> 0, metaStatus |-> "none",
     metaBody |-> "none", idString |-> <<>>, batchStatus |-> "none",
     body |-> None, wrote |-> FALSE]

(***************************************************************************)
(* Event loop.  A continuation that only waits for a promise of the script *)
(* itself (getRandomIDs after getPageTotal, fetchArtworksAndCache after    *)
(* getRandomIDs, the caller after fetchArtworksAndCache) is a microtask:   *)
(* it runs before the next network event or caller event is delivered.     *)
(* The clock is read only in Start and BatchJson, so it is advanced        *)
(* between events.  A chain of the page that has reached its end (task     *)
(* "ended") returns or throws in the same stretch.                         *)
(***************************************************************************)
MicrotaskPending ==
    \E d \in Calls : pc[d] \in {"loop", "send", "done"} \/ task[d] = "ended"

\* script.js:5, 123  the page when the script has been evaluated and no
\* handler has run
PageLoaded ==
    /\ currentIndex = 0
    /\ imageUrl = JUndef
    /\ title = [t |-> "initial"]
    /\ task = [c \in Calls |-> "none"]
    /\ artworkData = [c \in Calls |-> None]
    /\ artwork = [c \in Calls |-> None]
    /\ tempImageUrl = [c \in Calls |-> None]
    /\ okImages = {}
    /\ clicks = 0
    /\ rerenders = [c \in Calls |-> 0]
    /\ lastError = "none"

Init ==
    /\ slot \in InitSlots
    /\ now = LoadTime
    /\ started = 0
    /\ listHTML = "empty"
    /\ lastFetch = None
    /\ pc = [c \in Calls |-> "idle"]
    /\ pageTotal = [c \in Calls |-> None]
    /\ idArr = [c \in Calls |-> <<>>]
    /\ result = [c \in Calls |-> None]
    /\ hist = [c \in Calls |-> NoHist]
    /\ PageLoaded

\* the clock advances
Tick ==
    /\ TickCount(now) < MaxTicks
    /\ ~MicrotaskPending
    /\ \E d \in TickSteps : now' = now + d
    /\ UNCHANGED <<slot, started, listHTML, lastFetch, pc, pageTotal, idArr, result, hist>>
    /\ UNCHANGED uiVars

\* Start with getPageTotal() not awaited at line 47: the loop runs on the
\* pending promise
StartNoAwait(c) ==
    /\ pc[c] = "idle"
    /\ started < MaxCalls
    /\ ~MicrotaskPending
    /\ started' = started + 1
    /\ LET look == CacheLookup(slot, now)
       IN  IF look.hit
           THEN /\ result' = [result EXCEPT ![c] = look.data]
                /\ pc' = [pc EXCEPT ![c] = "done"]
                /\ hist' = [hist EXCEPT ![c] = NoHist]
                /\ UNCHANGED pageTotal
           ELSE /\ result' = [result EXCEPT ![c] = None]
                /\ pc' = [pc EXCEPT ![c] = "loop"]
                /\ pageTotal' = [pageTotal EXCEPT ![c] = JNaN]
                /\ hist' = [hist EXCEPT ![c] = [NoHist EXCEPT !.nMeta = 1]]
    /\ UNCHANGED <<slot, now, listHTML, lastFetch, idArr>>
    /\ UNCHANGED uiVars

\* script.js:59-87, 45-47, 19-22  the body of fetchArtworksAndCache up to its
\* first await, in a frame of its own: the cache read, and on a miss the
\* calls down to fetch(limit=0)
Call(c) ==
    /\ LET look == CacheLookup(slot, now)
       IN  IF look.hit
           THEN /\ result' = [result EXCEPT ![c] = look.data]
                /\ pc' = [pc EXCEPT ![c] = "done"]
                /\ hist' = [hist EXCEPT ![c] = NoHist]
           ELSE /\ result' = [result EXCEPT ![c] = None]
                /\ pc' = [pc EXCEPT ![c] = "metaFetch"]
                /\ hist' = [hist EXCEPT ![c] = [NoHist EXCEPT !.nMeta = 1]]
    /\ pageTotal' = [pageTotal EXCEPT ![c] = None]
    /\ idArr' = [idArr EXCEPT ![c] = <<>>]
    /\ UNCHANGED <<slot, now, listHTML, lastFetch>>

\* script.js:59  fetchArtworksAndCache is called by a caller the model does
\* not follow
Start(c) ==
    /\ pc[c] = "idle"
    /\ started < MaxCalls
    /\ ~MicrotaskPending
    /\ started' = started + 1
    /\ Call(c)
    /\ UNCHANGED uiVars

\* script.js:22-25, 35-38  the metadata fetch settles: on a rejection or a
\* response that is not ok getPageTotal returns null from its catch
MetaRespond(c) ==
    /\ pc[c] = "metaFetch"
    /\ ~MicrotaskPending
    /\ \E o \in FetchOutcomes :
         /\ hist' = [hist EXCEPT ![c].metaStatus = o]
         /\ IF o = "ok"
            THEN /\ pc' = [pc EXCEPT ![c] = "metaJson"]
                 /\ UNCHANGED pageTotal
            ELSE /\ pc' = [pc EXCEPT ![c] = "loop"]
                 /\ pageTotal' = [pageTotal EXCEPT ![c] = JNull]
    /\ UNCHANGED <<slot, now, started, listHTML, lastFetch, idArr, result>>
    /\ UNCHANGED uiVars

\* script.js:26-38, 47  the metadata body was read and getPageTotal returns
MetaJson(c) ==
    /\ pc[c] = "metaJson"
    /\ ~MicrotaskPending
    /\ \E countData \in MetaBodies :
         /\ pageTotal' = [pageTotal EXCEPT ![c] = PageTotalOf(countData)]
         /\ hist' = [hist EXCEPT ![c].metaBody = MetaKind(countData)]
    /\ pc' = [pc EXCEPT ![c] = "loop"]
    /\ UNCHANGED <<slot, now, started, listHTML, lastFetch, idArr, result>>
    /\ UNCHANGED uiVars

\* script.js:46-52  getRandomIDs resumes with the total, runs its loop and
\* returns idArr
GenIDs(c) ==
    /\ pc[c] = "loop"
    /\ \E ids \in RandomIDArrays(pageTotal[c]) : idArr' = [idArr EXCEPT ![c] = ids]
    /\ pc' = [pc EXCEPT ![c] = "send"]
    /\ UNCHANGED <<slot, now, started, listHTML, lastFetch, pageTotal, result, hist>>
    /\ UNCHANGED uiVars

\* script.js:87-89  fetchArtworksAndCache resumes with idArr, joins it and
\* sends the batch request
SendBatch(c) ==
    /\ pc[c] = "send"
    /\ hist' = [hist EXCEPT ![c].nBatch = @ + 1, ![c].idString = Join(idArr[c])]
    /\ pc' = [pc EXCEPT ![c] = "batchFetch"]
    /\ UNCHANGED <<slot, now, started, listHTML, lastFetch, pageTotal, idArr, result>>
    /\ UNCHANGED uiVars

\* Catch that sends the batch request once more before it gives up
CatchRetry(c) ==
    IF hist[c].nBatch < 2
    THEN /\ pc' = [pc EXCEPT ![c] = "send"]
         /\ UNCHANGED <<slot, lastFetch, listHTML, result>>
    ELSE /\ listHTML' = "failed"
         /\ result' = [result EXCEPT ![c] = JNull]
         /\ pc' = [pc EXCEPT ![c] = "done"]
         /\ UNCHANGED <<slot, lastFetch>>

\* script.js:111-115  the catch block of fetchArtworksAndCache
Catch(c) ==
    /\ listHTML' = "failed"
    /\ result' = [result EXCEPT ![c] = JNull]
    /\ pc' = [pc EXCEPT ![c] = "done"]
    /\ UNCHANGED <<slot, lastFetch>>

\* BatchRespond without the test of response.ok at line 92
BatchRespondNoOkTest(c) ==
    /\ pc[c] = "batchFetch"
    /\ ~MicrotaskPending
    /\ \E o \in FetchOutcomes :
         /\ hist' = [hist EXCEPT ![c].batchStatus = o]
         /\ IF o # "neterr"
            THEN /\ pc' = [pc EXCEPT ![c] = "batchJson"]
                 /\ UNCHANGED <<slot, listHTML, lastFetch, result>>
            ELSE Catch(c)
    /\ UNCHANGED <<now, started, pageTotal, idArr>>
    /\ UNCHANGED uiVars

\* script.js:89-94, 111-115  the batch fetch settles
BatchRespond(c) ==
    /\ pc[c] = "batchFetch"
    /\ ~MicrotaskPending
    /\ \E o \in FetchOutcomes :
         /\ hist' = [hist EXCEPT ![c].batchStatus = o]
         /\ IF o = "ok"
            THEN /\ pc' = [pc EXCEPT ![c] = "batchJson"]
                 /\ UNCHANGED <<slot, listHTML, lastFetch, result>>
            ELSE Catch(c)
    /\ UNCHANGED <<now, started, pageTotal, idArr>>
    /\ UNCHANGED uiVars

\* BatchJson that stores its payload only when the key is absent
BatchJsonFirstWins(c) ==
    /\ pc[c] = "batchJson"
    /\ ~MicrotaskPending
    /\ \E apiResponse \in BatchBodies, quota \in BOOLEAN :
         IF apiResponse = Thrown \/ apiResponse = JNull \/ quota
         THEN /\ UNCHANGED hist
              /\ Catch(c)
         ELSE LET artworks == Get(apiResponse, "data")
                  cachePayload == CachePayload(now, artworks)
              IN  /\ slot' = IF slot = NoItem
                             THEN Item(JSONstringify(cachePayload, CacheKeys))
                             ELSE slot
                  /\ lastFetch' = [data |-> artworks, at |-> now]
                  /\ hist' = [hist EXCEPT ![c].body = apiResponse, ![c].wrote = TRUE]
                  /\ result' = [result EXCEPT ![c] = artworks]
                  /\ pc' = [pc EXCEPT ![c] = "done"]
                  /\ UNCHANGED listHTML
    /\ UNCHANGED <<now, started, pageTotal, idArr>>
    /\ UNCHANGED uiVars

\* script.js:96-115  the batch body was read: cache write and return, or the
\* catch block when json() rejects, the body is null or setItem throws
BatchJson(c) ==
    /\ pc[c] = "batchJson"
    /\ ~MicrotaskPending
    /\ \E apiResponse \in BatchBodies, quota \in BOOLEAN :
         IF apiResponse = Thrown \/ apiResponse = JNull \/ quota
         THEN /\ UNCHANGED hist
              /\ Catch(c)
         ELSE LET artworks == Get(apiResponse, "data")
                  cachePayload == CachePayload(now, artworks)
              IN  /\ slot' = Item(JSONstringify(cachePayload, CacheKeys))
                  /\ lastFetch' = [data |-> artworks, at |-> now]
                  /\ hist' = [hist EXCEPT ![c].body = apiResponse, ![c].wrote = TRUE]
                  /\ result' = [result EXCEPT ![c] = artworks]
                  /\ pc' = [pc EXCEPT ![c] = "done"]
                  /\ UNCHANGED listHTML
    /\ UNCHANGED <<now, started, pageTotal, idArr>>
    /\ UNCHANGED uiVars

\* the frame of an invocation whose caller has taken the settled value
Settle(c) ==
    /\ pc' = [pc EXCEPT ![c] = "idle"]
    /\ pageTotal' = [pageTotal EXCEPT ![c] = None]
    /\ idArr' = [idArr EXCEPT ![c] = <<>>]
    /\ result' = [result EXCEPT ![c] = None]
    /\ hist' = [hist EXCEPT ![c] = NoHist]
    /\ UNCHANGED <<slot, now, listHTML, lastFetch>>

\* a caller the model does not follow takes the settled value
Return(c) ==
    /\ pc[c] = "done"
    /\ Settle(c)
    /\ UNCHANGED started
    /\ UNCHANGED uiVars

Next ==
    \/ Tick
    \/ \E c \in Calls : Start(c)
    \/ \E c \in Calls : MetaRespond(c)
    \/ \E c \in Calls : MetaJson(c)
    \/ \E c \in Calls : GenIDs(c)
    \/ \E c \in Calls : SendBatch(c)
    \/ \E c \in Calls : BatchRespond(c)
    \/ \E c \in Calls : BatchJson(c)
    \/ \E c \in Calls : Return(c)

Spec == Init /\ [][Next]_vars

(***************************************************************************)
(* getRandomIDs on its own: the invocation has just received the total     *)
(***************************************************************************)
\* totals the metadata endpoint reports to the invocation under study
IDTotals == {1, 2, 3, 5000}

InitIDs ==
    /\ slot = NoItem
    /\ now = LoadTime
    /\ started = 1
    /\ listHTML = "empty"
    /\ lastFetch = None
    /\ pc = [c \in Calls |-> IF c = 1 THEN "loop" ELSE "idle"]
    /\ \E n \in IDTotals :
         pageTotal = [c \in Calls |-> IF c = 1 THEN JNum(n) ELSE None]
    /\ idArr = [c \in Calls |-> <<>>]
    /\ result = [c \in Calls |-> None]
    /\ hist = [c \in Calls |->
                 IF c = 1 THEN [NoHist EXCEPT !.nMeta = 1, !.metaStatus = "ok", !.metaBody = "total"]
                 ELSE NoHist]
    /\ PageLoaded

NextIDs == \E c \in Calls : GenIDs(c)

SpecIDs == InitIDs /\ [][NextIDs]_vars

(***************************************************************************)
(* The page around fetchArtworksAndCache: renderArtworkData, getImageUrl   *)
(* and the click handler of Next Artwork.  Each of them awaits             *)
(* fetchArtworksAndCache; task[c] says which one awaits invocation c, and  *)
(* the function that resumes calls the next one in the same synchronous    *)
(* stretch, so one slot c carries a whole chain click -> render ->         *)
(* getImageUrl -> image request -> re-render.                              *)
(***************************************************************************)
\* At that clamps the index to the last element
AtClamped(arr, index) == IF index < Len(arr) THEN arr[index + 1] ELSE arr[Len(arr)]

\* script.js:132, 146  artworkData[currentIndex]: undefined past the end
At(arr, index) == IF index < Len(arr) THEN arr[index + 1] ELSE JUndef

\* script.js:130-131, 143-145  artworkData && artworkData.length > 0
HasArtworks(data) == data.t = "array" /\ Len(data.v) > 0

\* script.js:133  the IIIF url of an artwork's image
ImageUrlOf(record) == [t |-> "url", image_id |-> record.image_id]

\* NextIndex that stops at the last index
NextIndexNoWrap(index, length) == IF index < length - 1 THEN index + 1 ELSE index

\* script.js:161-165, 370-374  the index after the current one, cyclically
NextIndex(index, length) == IF index < length - 1 THEN index + 1 ELSE 0

\* script.js:150  title.innerHTML = artwork.title
TitleOf(record) == [t |-> "title", v |-> record.title]
\* script.js:180
CouldNotRetrieve ==
    [t |-> "message",
     v |-> "Could not retrieve artwork data due to an error. Check console for details."]
\* script.js:182
NoArtworksFound == [t |-> "message", v |-> "No artworks were found with the current query."]

\* the chain in slot c ends here: the function is about to return or to throw
EndTask(c) ==
    /\ task' = [task EXCEPT ![c] = "ended"]
    /\ UNCHANGED <<artworkData, artwork, tempImageUrl>>

\* a chain has reached its end and its frame is still there; the frame goes
\* away before the next event is delivered
Ending == \E d \in Calls : task[d] = "ended"

\* errors that leave an async function of the page: nothing catches them
UncaughtErrors ==
    {"click: artworkData.length", "render: artwork.title", "render: title",
     "getImageUrl: artwork.image_id"}

\* an error leaves the function awaiting invocation c and nothing catches it
Throw(c, error) ==
    /\ lastError' = error
    /\ EndTask(c)
    /\ Settle(c)

\* script.js:368-369  Next Artwork is clicked: the handler calls
\* fetchArtworksAndCache
Click(c) ==
    /\ task[c] = "none"
    /\ \A d \in Calls : d < c => task[d] # "none"
    /\ clicks < MaxClicks
    /\ ~MicrotaskPending
    /\ clicks' = clicks + 1
    /\ task' = [task EXCEPT ![c] = "click"]
    /\ Call(c)
    /\ UNCHANGED <<started, currentIndex, imageUrl, title, artworkData, artwork, tempImageUrl,
                   okImages, rerenders, lastError>>

\* script.js:369-377, 143  the handler resumes with the artworks, advances
\* the index and calls renderArtworkData, which calls fetchArtworksAndCache
ClickResume(c) ==
    /\ pc[c] = "done"
    /\ task[c] = "click"
    /\ ~Ending
    /\ LET data == result[c]
       IN  IF data.t # "array"
           THEN /\ Throw(c, "click: artworkData.length")
                /\ UNCHANGED currentIndex
           ELSE /\ currentIndex' = NextIndex(currentIndex, Len(data.v))
                /\ task' = [task EXCEPT ![c] = "render"]
                /\ Call(c)
                /\ UNCHANGED <<artworkData, artwork, tempImageUrl, lastError>>
    /\ UNCHANGED <<started, imageUrl, title, okImages, clicks, rerenders>>

\* script.js:143-154, 130  renderArtworkData resumes with the artworks,
\* writes the text of artworkData[currentIndex] and calls getImageUrl, which
\* calls fetchArtworksAndCache; in the else branches title is not in scope
RenderResume(c) ==
    /\ pc[c] = "done"
    /\ task[c] = "render"
    /\ ~Ending
    /\ LET data == result[c]
       IN  IF HasArtworks(data)
           THEN LET read == At(data.v, currentIndex)
                IN  IF read = JUndef
                    THEN /\ Throw(c, "render: artwork.title")
                         /\ UNCHANGED title
                    ELSE /\ title' = TitleOf(read)
                         /\ artworkData' = [artworkData EXCEPT ![c] = data]
                         /\ artwork' = [artwork EXCEPT ![c] = read]
                         /\ task' = [task EXCEPT ![c] = "getImageUrl"]
                         /\ Call(c)
                         /\ UNCHANGED <<tempImageUrl, lastError>>
           ELSE /\ Throw(c, "render: title")
                /\ UNCHANGED title
    /\ UNCHANGED <<started, currentIndex, imageUrl, okImages, clicks, rerenders>>

\* script.js:130-136, 154-157  getImageUrl resumes with the artworks and
\* returns the url of artworkData[currentIndex], or undefined;
\* renderArtworkData resumes with it and sends the image request
GetImageUrlResume(c) ==
    /\ pc[c] = "done"
    /\ task[c] = "getImageUrl"
    /\ ~Ending
    /\ LET data == result[c]
       IN  IF HasArtworks(data)
           THEN LET read == At(data.v, currentIndex)
                IN  IF read = JUndef
                    THEN Throw(c, "getImageUrl: artwork.image_id")
                    ELSE /\ tempImageUrl' = [tempImageUrl EXCEPT ![c] = ImageUrlOf(read)]
                         /\ task' = [task EXCEPT ![c] = "image"]
                         /\ Settle(c)
                         /\ UNCHANGED <<artworkData, artwork, lastError>>
           ELSE /\ tempImageUrl' = [tempImageUrl EXCEPT ![c] = JUndef]
                /\ task' = [task EXCEPT ![c] = "image"]
                /\ Settle(c)
                /\ UNCHANGED <<artworkData, artwork, lastError>>
    /\ UNCHANGED <<started, currentIndex, imageUrl, title, okImages, clicks, rerenders>>

\* what the image request for url settles with: a rejection, or the status
\* the server gives that image; the url "undefined" is some page of the
\* site itself
ImageOutcomes(url) ==
    IF url.t = "url"
    THEN IF url.image_id \in okImages THEN {"neterr", "ok"} ELSE {"neterr", "notok"}
    ELSE FetchOutcomes

\* ImageRespond that logs a status that is not ok and does not render again
ImageRespondNoRerender(c) ==
    /\ task[c] = "image"
    /\ ~MicrotaskPending
    /\ \E o \in ImageOutcomes(tempImageUrl[c]) :
         IF o = "ok"
         THEN /\ imageUrl' = tempImageUrl[c]
              /\ UNCHANGED lastError
         ELSE /\ lastError' = IF o = "neterr" THEN "image: rejected" ELSE lastError
              /\ UNCHANGED imageUrl
    /\ EndTask(c)
    /\ UNCHANGED <<currentIndex, rerenders>>
    /\ UNCHANGED <<slot, now, listHTML, lastFetch, pc, pageTotal, idArr, result, hist>>
    /\ UNCHANGED <<started, title, okImages, clicks>>

\* script.js:157-177  the image request settles: renderImage on an ok
\* status; on another status the index advances and renderArtworkData is
\* called again; a rejection is logged
ImageRespond(c) ==
    /\ task[c] = "image"
    /\ ~MicrotaskPending
    /\ \E o \in ImageOutcomes(tempImageUrl[c]) :
         CASE o = "ok" ->
                /\ imageUrl' = tempImageUrl[c]
                /\ EndTask(c)
                /\ UNCHANGED <<currentIndex, rerenders, lastError>>
                /\ UNCHANGED <<slot, now, listHTML, lastFetch, pc, pageTotal, idArr, result, hist>>
           [] o = "neterr" ->
                /\ lastError' = "image: rejected"
                /\ EndTask(c)
                /\ UNCHANGED <<currentIndex, imageUrl, rerenders>>
                /\ UNCHANGED <<slot, now, listHTML, lastFetch, pc, pageTotal, idArr, result, hist>>
           [] o = "notok" ->
                /\ rerenders[c] < MaxRerenders
                /\ currentIndex' = NextIndex(currentIndex, Len(artworkData[c].v))
                /\ rerenders' = [rerenders EXCEPT ![c] = @ + 1]
                /\ UNCHANGED lastError
                /\ task' = [task EXCEPT ![c] = "render"]
                /\ artworkData' = [artworkData EXCEPT ![c] = None]
                /\ artwork' = [artwork EXCEPT ![c] = None]
                /\ tempImageUrl' = [tempImageUrl EXCEPT ![c] = None]
                /\ Call(c)
                /\ UNCHANGED imageUrl
    /\ UNCHANGED <<started, title, okImages, clicks>>

\* the chain in slot c has ended: its frame goes away
Finish(c) ==
    /\ task[c] = "ended"
    /\ task' = [task EXCEPT ![c] = "none"]
    /\ artworkData' = [artworkData EXCEPT ![c] = None]
    /\ artwork' = [artwork EXCEPT ![c] = None]
    /\ tempImageUrl' = [tempImageUrl EXCEPT ![c] = None]
    /\ rerenders' = [rerenders EXCEPT ![c] = 0]
    /\ lastError' = "none"
    /\ UNCHANGED <<slot, now, started, listHTML, lastFetch, pc, pageTotal, idArr, result, hist>>
    /\ UNCHANGED <<currentIndex, imageUrl, title, okImages, clicks>>

\* the clock advances by a millisecond, once, before a step of the chain in
\* slot c that reads it: a call of fetchArtworksAndCache made in the same
\* synchronous stretch as the previous one's return (pc "done"), or one made
\* when the image response arrives (task "image").  It is the millisecond
\* in which the payload of the earlier visit becomes one hour old
Elapse(c) ==
    /\ \/ pc[c] = "done" /\ task[c] \in {"click", "render"}
       \/ task[c] = "image"
    /\ ~Ending
    /\ now = LoadTime
    /\ now' = now + 1
    /\ UNCHANGED <<slot, started, listHTML, lastFetch, pc, pageTotal, idArr, result, hist>>
    /\ UNCHANGED uiVars

\* the batch an earlier visit left in the cache
OldBatch == JArr(<<Rec(2), Rec(1)>>)
\* what localStorage may hold when the page is loaded: nothing, or a payload
\* that is one millisecond short of an hour old
PageSlots ==
    {NoItem, Item(JSONstringify(CachePayload(LoadTime - CACHE_DURATION + 1, OldBatch), CacheKeys))}
\* the images the server answers with an ok status: none, or that of record 1
PageImages == {{}, {Rec(1).image_id}}

\* script.js:186-188  the page when the setup callback has called
\* renderArtworkData in slot 1, which has called fetchArtworksAndCache
InitUI ==
    /\ slot \in PageSlots
    /\ now = LoadTime
    /\ started = 0
    /\ listHTML = "empty"
    /\ lastFetch = None
    /\ LET look == CacheLookup(slot, now)
       IN  /\ pc = [c \in Calls |->
                      IF c # 1 THEN "idle" ELSE IF look.hit THEN "done" ELSE "metaFetch"]
           /\ result = [c \in Calls |-> IF c = 1 /\ look.hit THEN look.data ELSE None]
           /\ hist = [c \in Calls |->
                        IF c = 1 /\ ~look.hit THEN [NoHist EXCEPT !.nMeta = 1] ELSE NoHist]
    /\ pageTotal = [c \in Calls |-> None]
    /\ idArr = [c \in Calls |-> <<>>]
    /\ currentIndex = 0
    /\ imageUrl = JUndef
    /\ title = [t |-> "initial"]
    /\ task = [c \in Calls |-> IF c = 1 THEN "render" ELSE "none"]
    /\ artworkData = [c \in Calls |-> None]
    /\ artwork = [c \in Calls |-> None]
    /\ tempImageUrl = [c \in Calls |-> None]
    /\ okImages \in PageImages
    /\ clicks = 0
    /\ rerenders = [c \in Calls |-> 0]
    /\ lastError = "none"

NextUI ==
    \/ \E c \in Calls : Elapse(c)
    \/ \E c \in Calls : Click(c)
    \/ \E c \in Calls : ClickResume(c)
    \/ \E c \in Calls : RenderResume(c)
    \/ \E c \in Calls : GetImageUrlResume(c)
    \/ \E c \in Calls : ImageRespond(c)
    \/ \E c \in Calls : Finish(c)
    \/ \E c \in Calls : MetaRespond(c)
    \/ \E c \in Calls : MetaJson(c)
    \/ \E c \in Calls : GenIDs(c)
    \/ \E c \in Calls : SendBatch(c)
    \/ \E c \in Calls : BatchRespond(c)
    \/ \E c \in Calls : BatchJson(c)

SpecUI == InitUI /\ [][NextUI]_vars

(***************************************************************************)
(* One chain of renders on a batch that stays cached and fresh: nobody     *)
(* clicks, the clock stays within the hour, and the server has the image   *)
(* of at least one record of the batch.  What the event loop guarantees is *)
(* that a continuation that can run does run and that a request is settled *)
(* at some time, with a status or with a rejection.                        *)
(***************************************************************************)
\* the cached batches
LiveBatches == {<<Rec(1)>>, <<Rec(1), Rec(2)>>, <<Rec(1), Rec(2), Rec(3)>>}

\* script.js:143  renderArtworkData has been called in slot 1 at some index
\* of the cached batch and fetchArtworksAndCache has returned the batch
InitLive ==
    /\ \E batch \in LiveBatches :
         /\ slot = Item(JSONstringify(CachePayload(LoadTime, JArr(batch)), CacheKeys))
         /\ result = [c \in Calls |-> IF c = 1 THEN JArr(batch) ELSE None]
         /\ currentIndex \in 0 .. (Len(batch) - 1)
         /\ okImages \in (SUBSET {batch[i].image_id : i \in 1 .. Len(batch)}) \ {{}}
    /\ now = LoadTime
    /\ started = 0
    /\ listHTML = "empty"
    /\ lastFetch = None
    /\ pc = [c \in Calls |-> IF c = 1 THEN "done" ELSE "idle"]
    /\ hist = [c \in Calls |-> NoHist]
    /\ pageTotal = [c \in Calls |-> None]
    /\ idArr = [c \in Calls |-> <<>>]
    /\ imageUrl = JUndef
    /\ title = [t |-> "initial"]
    /\ task = [c \in Calls |-> IF c = 1 THEN "render" ELSE "none"]
    /\ artworkData = [c \in Calls |-> None]
    /\ artwork = [c \in Calls |-> None]
    /\ tempImageUrl = [c \in Calls |-> None]
    /\ clicks = 0
    /\ rerenders = [c \in Calls |-> 0]
    /\ lastError = "none"

NextLive ==
    \/ \E c \in Calls : RenderResume(c)
    \/ \E c \in Calls : GetImageUrlResume(c)
    \/ \E c \in Calls : ImageRespond(c)
    \/ \E c \in Calls : Finish(c)

SpecLive == InitLive /\ [][NextLive]_vars /\ WF_vars(NextLive)

(***************************************************************************)
(* Vocabulary of the properties: the slot as the specification describes   *)
(* it, read off the stored text                                            *)
(***************************************************************************)
\* the members of the stored object literal, <<>> for anything else
SlotMembers(s) == IF s.s = "text" /\ s.txt.k = "object" THEN s.txt.members ELSE <<>>

\* the slot holds a parseable entry with a numeric timestamp
IsEntry(s) ==
    \E i \in DOMAIN SlotMembers(s) :
        SlotMembers(s)[i][1] = "timestamp" /\ SlotMembers(s)[i][2].t = "number"

EntryTimestamp(s) ==
    LET i == CHOOSE j \in DOMAIN SlotMembers(s) : SlotMembers(s)[j][1] = "timestamp"
    IN  SlotMembers(s)[i][2].v

EntryData(s) ==
    IF \E i \in DOMAIN SlotMembers(s) : SlotMembers(s)[i][1] = "data"
    THEN LET i == CHOOSE j \in DOMAIN SlotMembers(s) : SlotMembers(s)[j][1] = "data"
         IN  SlotMembers(s)[i][2]
    ELSE JUndef

FreshEntry(s, t) == IsEntry(s) /\ t - EntryTimestamp(s) < 3600000
StaleEntry(s, t) == IsEntry(s) /\ t - EntryTimestamp(s) >= 3600000

\* this step is the call of fetchArtworksAndCache in slot c
Called(c) == pc[c] = "idle" /\ pc'[c] # "idle"

\* this step is the cache write of invocation c
Stored(c) == pc[c] = "batchJson" /\ hist'[c].wrote

(***************************************************************************)
(* C1: a call made while the slot holds a parseable entry younger than one *)
(* hour returns that entry's data at once and sends neither the metadata   *)
(* request nor the batch request.                                          *)
(***************************************************************************)
C1_FreshHitNoNetwork ==
    [][\A c \in Calls :
         (Called(c) /\ FreshEntry(slot, now)) =>
             /\ pc'[c] = "done"
             /\ result'[c] = EntryData(slot)
             /\ hist'[c].nMeta = 0
             /\ hist'[c].nBatch = 0]_vars

\* an invocation has returned the data of an entry that is one ms short of
\* an hour old, without a request
C1_Witness ==
    \E c \in Calls :
        /\ pc[c] = "done"
        /\ hist[c].nMeta = 0
        /\ hist[c].nBatch = 0
        /\ IsEntry(slot)
        /\ now - EntryTimestamp(slot) = 3600000 - 1
        /\ result[c] = EntryData(slot)
        /\ result[c].t = "array"

(***************************************************************************)
(* C2: a call made while the slot holds an entry that is one hour old or   *)
(* older (exactly one hour included) does not return it: it sends the      *)
(* metadata request, then the batch request, and returns the records of    *)
(* the batch response or a failure.                                        *)
(***************************************************************************)
C2_StaleRefetched ==
    /\ [][\A c \in Calls :
            (Called(c) /\ StaleEntry(slot, now)) =>
                /\ pc'[c] = "metaFetch"
                /\ hist'[c].nMeta = 1
                /\ result'[c] = None]_vars
    /\ [](\A c \in Calls :
            /\ hist[c].nBatch <= hist[c].nMeta
            /\ (pc[c] = "done" /\ hist[c].nMeta = 1) =>
                  /\ hist[c].nBatch = 1
                  /\ \/ result[c] = JNull /\ ~hist[c].wrote
                     \/ /\ hist[c].batchStatus = "ok"
                        /\ hist[c].body.t = "object"
                        /\ result[c] = Get(hist[c].body, "data"))

\* the first invocation, called on an entry exactly one hour old, has sent
\* both requests and returned a failure before the clock advanced; the
\* entry is still in the slot
C2_Witness ==
    \E c \in Calls :
        /\ pc[c] = "done"
        /\ started = 1
        /\ lastFetch = None
        /\ IsEntry(slot)
        /\ now = LoadTime
        /\ now - EntryTimestamp(slot) = 3600000
        /\ hist[c].nMeta = 1
        /\ hist[c].nBatch = 1
        /\ result[c] = JNull

(***************************************************************************)
(* C3: when the metadata response reports pagination.total = 0 the         *)
(* invocation fails and sends no batch request.                            *)
(* The code does not do this: getPageTotal returns null, getRandomIDs      *)
(* multiplies by it and produces ten times the id 1, and the batch request *)
(* is sent.                                                                *)
(***************************************************************************)
C3_ZeroTotalNoBatch ==
    \A c \in Calls :
        hist[c].metaBody = "zero" =>
            /\ hist[c].nBatch = 0
            /\ pc[c] = "done" => result[c] = JNull

(***************************************************************************)
(* C4: when the metadata request is answered with a status that is not ok  *)
(* or fails in the network, the invocation fails: it returns no records,   *)
(* sends no batch request and does not write the slot.                     *)
(* The code does not do this, for the reason given at C3.                  *)
(***************************************************************************)
C4_MetaFailureFails ==
    \A c \in Calls :
        hist[c].metaStatus \in {"neterr", "notok"} =>
            /\ hist[c].nBatch = 0
            /\ ~hist[c].wrote
            /\ pc[c] = "done" => result[c] = JNull

(***************************************************************************)
(* C5: when the batch request is answered with a status that is not ok or  *)
(* fails in the network, the invocation returns null, never records, and   *)
(* stores nothing.                                                         *)
(***************************************************************************)
C5_BatchFailureNull ==
    \A c \in Calls :
        hist[c].batchStatus \in {"neterr", "notok"} =>
            /\ pc[c] = "done"
            /\ result[c] = JNull
            /\ ~hist[c].wrote

\* an invocation whose batch request got a non-ok status has returned null
\* after a metadata request that reported a total
C5_Witness ==
    \E c \in Calls :
        /\ pc[c] = "done"
        /\ hist[c].metaBody = "total"
        /\ hist[c].batchStatus = "notok"
        /\ result[c] = JNull
        /\ listHTML = "failed"

(***************************************************************************)
(* C6: the cache write of a successful fetch replaces the slot by exactly  *)
(* {timestamp, data}, data being the records of the batch response (also   *)
(* returned) and timestamp the clock at the write, which is not before the *)
(* call because the clock never goes back; a later call made less than an  *)
(* hour after that timestamp returns the same data and sends no request.   *)
(***************************************************************************)
C6_WriteThenHit ==
    /\ [][\A c \in Calls :
            (Stored(c) /\ result'[c].t = "array") =>
                /\ result'[c] = Get(hist'[c].body, "data")
                /\ slot' = Item(TxtObj(<< <<"timestamp", JNum(now)>>,
                                          <<"data", result'[c]>> >>))
                /\ lastFetch' = [data |-> result'[c], at |-> now]]_vars
    /\ [][now' >= now]_vars
    /\ [][\A c \in Calls :
            (Called(c) /\ lastFetch # None /\ now - lastFetch.at < 3600000) =>
                /\ pc'[c] = "done"
                /\ result'[c] = lastFetch.data
                /\ hist'[c].nMeta = 0
                /\ hist'[c].nBatch = 0]_vars

\* an invocation called one ms short of an hour after a fetch stored two
\* records has returned those records without a request
C6_Witness ==
    \E c \in Calls :
        /\ pc[c] = "done"
        /\ hist[c].nMeta = 0
        /\ lastFetch # None
        /\ lastFetch.at = LoadTime + 1
        /\ now = lastFetch.at + 3600000 - 1
        /\ result[c] = JArr(<<Rec(1), Rec(2)>>)
        /\ EntryData(slot) = result[c]

(***************************************************************************)
(* C7: a slot that is absent, empty, unparsable, or parses to a value      *)
(* without a usable timestamp is a miss: the call goes on to the fresh     *)
(* fetch, and nothing is thrown to the caller.                             *)
(***************************************************************************)
C7_CorruptIsMiss ==
    /\ [][\A c \in Calls :
            (Called(c) /\ ~IsEntry(slot)) =>
                /\ pc'[c] = "metaFetch"
                /\ hist'[c].nMeta = 1
                /\ result'[c] = None]_vars
    /\ [](\A c \in Calls : result[c] # Thrown)

\* the first invocation, called on a slot holding text that is not JSON, has
\* sent both requests and is reading the batch body
C7_Witness ==
    \E c \in Calls :
        /\ pc[c] = "batchJson"
        /\ started = 1
        /\ slot = Item(TxtGarbage)
        /\ hist[c].nMeta = 1
        /\ hist[c].nBatch = 1
        /\ hist[c].batchStatus = "ok"
        /\ result[c] = None

(***************************************************************************)
(* C8: the slot changes only in the cache write of a successful fetch:     *)
(* a call that hits, and a call in which the metadata request failed, the  *)
(* total was zero or the batch request failed, leaves the slot as it was.  *)
(* The code does not do this for metadata failures and a zero total: see   *)
(* C3 and C4.                                                              *)
(***************************************************************************)
C8_OnlySuccessWrites ==
    [][slot' # slot =>
          \E c \in Calls :
              /\ Stored(c)
              /\ hist[c].nMeta = 1
              /\ hist[c].metaStatus = "ok"
              /\ hist[c].metaBody = "total"
              /\ hist[c].batchStatus = "ok"
              /\ result'[c] # JNull]_vars

(***************************************************************************)
(* C9: for every total that is an integer >= 1 getRandomIDs returns        *)
(* exactly 10 identifiers, each an integer from 1 to total inclusive       *)
(* (repetitions allowed); with total = 5000 all lie in 1 .. 5000.          *)
(***************************************************************************)
C9_TenIDsInRange ==
    \A c \in Calls :
        (pc[c] = "send" /\ pageTotal[c].t = "number" /\ pageTotal[c].v >= 1) =>
            /\ Len(idArr[c]) = 10
            /\ \A i \in 1 .. Len(idArr[c]) : idArr[c][i] \in 1 .. pageTotal[c].v

\* getRandomIDs has returned, for the total 5000, ten identifiers that are
\* not all the same
C9_Witness ==
    /\ pc[1] = "send"
    /\ pageTotal[1] = JNum(5000)
    /\ Len(idArr[1]) = 10
    /\ idArr[1][1] = 1
    /\ idArr[1][10] > 2000

(***************************************************************************)
(* C10: within an invocation that misses the cache the steps are strictly  *)
(* ordered: the metadata request has completed before an identifier        *)
(* exists, all 10 identifiers exist before the batch request is sent, and  *)
(* the batch response has arrived before the slot is written.              *)
(***************************************************************************)
C10_StrictOrder ==
    \A c \in Calls :
        /\ hist[c].metaStatus # "none" => hist[c].nMeta = 1
        /\ idArr[c] # <<>> =>
              \/ hist[c].metaStatus \in {"neterr", "notok"}
              \/ hist[c].metaStatus = "ok" /\ hist[c].metaBody # "none"
        /\ hist[c].nBatch > 0 => Len(idArr[c]) = 10 /\ Len(hist[c].idString) = 19
        /\ hist[c].batchStatus # "none" => hist[c].nBatch = 1
        /\ hist[c].wrote => hist[c].batchStatus = "ok" /\ hist[c].body # None
        /\ pc[c] \in {"metaFetch", "metaJson"} => idArr[c] = <<>> /\ hist[c].nBatch = 0
        /\ pc[c] \in {"loop", "send", "batchFetch", "batchJson"} => ~hist[c].wrote

\* an invocation that missed has gone through all four steps and stored the
\* records it fetched with its 10 identifiers
C10_Witness ==
    \E c \in Calls :
        /\ pc[c] = "done"
        /\ hist[c].nMeta = 1
        /\ hist[c].metaBody = "total"
        /\ Len(idArr[c]) = 10
        /\ hist[c].nBatch = 1
        /\ hist[c].wrote
        /\ result[c] = JArr(<<Rec(1)>>)
(***************************************************************************)
(* C11: one invocation sends at most one metadata request and at most one  *)
(* batch request whatever their outcomes; after a request has failed the   *)
(* invocation sends no request again.                                      *)
(***************************************************************************)
C11_SingleAttempt ==
    \A c \in Calls :
        /\ hist[c].nMeta <= 1
        /\ hist[c].nBatch <= 1
        /\ hist[c].metaStatus \in {"neterr", "notok"} =>
              pc[c] \notin {"metaFetch", "metaJson"}
        /\ hist[c].batchStatus \in {"neterr", "notok"} =>
              pc[c] \notin {"metaFetch", "metaJson", "loop", "send", "batchFetch", "batchJson"}

\* an invocation whose metadata request and batch request both failed has
\* returned after one request of each kind
C11_Witness ==
    \E c \in Calls :
        /\ pc[c] = "done"
        /\ hist[c].metaStatus = "neterr"
        /\ hist[c].batchStatus = "neterr"
        /\ hist[c].nMeta = 1
        /\ hist[c].nBatch = 1
        /\ result[c] = JNull
(***************************************************************************)
(* C12: overlapping invocations that miss do not wait for each other: a    *)
(* step of one leaves the other where it is, and each sends its own        *)
(* metadata and batch request.  After every cache write the slot is the    *)
(* whole {timestamp, data} payload of the invocation that wrote last,      *)
(* never parts of two payloads.                                            *)
(***************************************************************************)
C12_LastWriteWins ==
    /\ [](\A c \in Calls :
            /\ pc[c] \in {"metaFetch", "metaJson", "loop", "send", "batchFetch", "batchJson"} =>
                  hist[c].nMeta = 1
            /\ pc[c] \in {"batchFetch", "batchJson"} => hist[c].nBatch = 1)
    /\ [](lastFetch # None =>
            slot = Item(JSONstringify(CachePayload(lastFetch.at, lastFetch.data), CacheKeys)))
    /\ [][\A c, d \in Calls :
            (c # d /\ pc[c] # "idle" /\ pc'[c] # pc[c]) =>
                /\ pc'[d] = pc[d]
                /\ hist'[d] = hist[d]
                /\ result'[d] = result[d]
                /\ (Stored(c) => lastFetch' = [data |-> result'[c], at |-> now])]_vars

\* two invocations were called at the load time and both missed; one has
\* stored its payload and returned while the other was in flight (had it
\* stored before the other was called, the other would have hit), and now
\* the other has stored two records: the slot holds exactly its payload
C12_Witness ==
    \E c, d \in Calls :
        /\ c # d
        /\ started = 2
        /\ now = LoadTime
        /\ listHTML = "empty"
        /\ pc[c] = "idle"
        /\ pc[d] = "done"
        /\ hist[d].nMeta = 1
        /\ hist[d].nBatch = 1
        /\ hist[d].wrote
        /\ result[d] = JArr(<<Rec(1), Rec(2)>>)
        /\ slot = Item(TxtObj(<< <<"timestamp", JNum(LoadTime)>>, <<"data", result[d]>> >>))
(***************************************************************************)
(* Vocabulary of the properties about the page                             *)
(***************************************************************************)
\* this step is renderArtworkData resuming with the artworks in slot c
RenderReads(c) == pc[c] = "done" /\ task[c] = "render" /\ task'[c] # "render"

\* this step is getImageUrl resuming with the artworks in slot c
GetImageUrlReads(c) == pc[c] = "done" /\ task[c] = "getImageUrl" /\ task'[c] # "getImageUrl"

\* this step is the click handler resuming with the artworks in slot c
ClickReads(c) == pc[c] = "done" /\ task[c] = "click" /\ task'[c] # "click"

\* the artworks are a sequence and the index lies beyond its last element
OutOfRange(data) == data.t = "array" /\ Len(data.v) > 0 /\ currentIndex >= Len(data.v)

(***************************************************************************)
(* C13: no step of fetchArtworksAndCache changes currentIndex, the cache   *)
(* write included, and renderArtworkData and getImageUrl read              *)
(* artworkData[currentIndex] with the index as it is: when the index is    *)
(* not below the length of a non-empty batch the read yields undefined and *)
(* the function ends in a TypeError, the index still unchanged.  Such a    *)
(* read is reachable after the cache expired and a shorter batch was       *)
(* fetched (the witness).                                                  *)
(***************************************************************************)
C13_IndexNotReset ==
    [][/\ \A c \in Calls :
            (pc[c] \in {"metaFetch", "metaJson", "loop", "send", "batchFetch", "batchJson"}
               /\ pc'[c] # pc[c]) => currentIndex' = currentIndex
       /\ \A c \in Calls :
            (RenderReads(c) /\ OutOfRange(result[c])) =>
                /\ currentIndex' = currentIndex
                /\ task'[c] = "ended"
                /\ lastError' = "render: artwork.title"
       /\ \A c \in Calls :
            (GetImageUrlReads(c) /\ OutOfRange(result[c])) =>
                /\ currentIndex' = currentIndex
                /\ task'[c] = "ended"
                /\ lastError' = "getImageUrl: artwork.image_id"]_vars

\* without a click: the first render showed record 2, the first of the two
\* records an earlier visit had cached; its image request failed and the
\* index went to 1; by then the cached payload was an hour old, the
\* re-render fetched a batch of one record, and renderArtworkData read
\* artworkData[1] of it
C13_Witness ==
    \E c \in Calls :
        /\ task[c] = "ended"
        /\ lastError = "render: artwork.title"
        /\ clicks = 0
        /\ rerenders[c] = 1
        /\ title = TitleOf(Rec(2))
        /\ now = LoadTime + 1
        /\ lastFetch = [data |-> JArr(<<Rec(1)>>), at |-> now]
        /\ EntryData(slot) = lastFetch.data
        /\ currentIndex = 1
        /\ currentIndex >= Len(EntryData(slot).v)
(***************************************************************************)
(* C14: when the click handler of Next Artwork resumes with a batch of     *)
(* n >= 1 records and currentIndex in 0 .. n-1, the new currentIndex is    *)
(* (old + 1) mod n, again in 0 .. n-1; applied n times from any index of   *)
(* the batch, the handler's step visits every index once and comes back to *)
(* where it started.                                                       *)
(***************************************************************************)
\* the indices the handler's step yields in k clicks on a batch of n records
RECURSIVE Visits(_, _, _)
Visits(index, n, k) ==
    IF k = 0 THEN <<>>
    ELSE <<NextIndex(index, n)>> \o Visits(NextIndex(index, n), n, k - 1)

C15_SameRecord ==
    \A c \in Calls :
        (task[c] = "image" /\ tempImageUrl[c].t = "url") =>
            tempImageUrl[c] = ImageUrlOf(artwork[c])
(***************************************************************************)
(* C17: a chain of automatic re-renders ends: after one initial call       *)
(* renderArtworkData calls itself again at most once per record of the     *)
(* batch it shows.                                                         *)
(* The code does not do this: when every image of the batch is answered    *)
(* with a status that is not ok the index wraps around and the re-renders  *)
(* go on.                                                                  *)
(***************************************************************************)
C17_RerendersBounded ==
    \A c \in Calls :
        (task[c] = "image" /\ artworkData[c].t = "array") =>
            rerenders[c] <= Len(artworkData[c].v)
(***************************************************************************)
(* C18: when renderArtworkData resumes with null it sets the title to the  *)
(* 'Could not retrieve artwork data' message, when it resumes with an      *)
(* empty sequence it sets the title to 'No artworks were found with the    *)
(* current query.', and in neither case does it end in an uncaught error.  *)
(* The code does not do this: title is declared inside the if block, so    *)
(* both else branches throw a ReferenceError and the title stays as it was.*)
(***************************************************************************)
C18_FailureMessages ==
    [][\A c \in Calls :
         /\ (RenderReads(c) /\ result[c] = JNull) =>
                /\ title' = CouldNotRetrieve
                /\ lastError' \notin UncaughtErrors
         /\ (RenderReads(c) /\ result[c] = JArr(<<>>)) =>
                /\ title' = NoArtworksFound
                /\ lastError' \notin UncaughtErrors]_vars
(***************************************************************************)
(* C16: on a batch that stays cached and fresh, with no click and with at  *)
(* least one record whose image the server answers with an ok status, a    *)
(* renderArtworkData started at any index of the batch eventually reaches  *)
(* renderImage with the url of an image that was fetched with an ok        *)
(* status.                                                                 *)
(* As stated this fails: a rejected image request is only logged and ends  *)
(* the chain.                                                              *)
(***************************************************************************)
\* renderImage has been called with the url of an image answered ok
Shown ==
    \E c \in Calls :
        /\ task[c] = "ended"
        /\ lastError = "none"
        /\ imageUrl = tempImageUrl[c]
        /\ imageUrl.t = "url"
        /\ imageUrl.image_id \in okImages

====
